---- MODULE Spec2Model ----
(***************************************************************************)
(* State-machine model of the dex-v4 settlement core: the Settle and       *)
(* SweepFees instruction handlers, the program-derived market authority    *)
(* and the signed token transfers they issue.                              *)
(*                                                                         *)
(* The chain state is the market records, the user records and the token   *)
(* balances.  Every action is one whole instruction call: the handler runs *)
(* on a working copy of the chain state and the copy is committed only     *)
(* when the handler returns Ok.  `last' records the call that ran last:    *)
(* its account list, its result and the ordered trace of reads, writes and *)
(* cross-program transfers it performed up to the point where it ended.    *)
(*                                                                         *)
(* Three specifications share the variables.  Spec runs the Settle and     *)
(* SweepFees handlers.  SpecBuild runs the client-side instruction         *)
(* builders; `built' is the instruction built last.  SpecCrank runs        *)
(* ConsumeEvents over the external event queue `queue'; `crank' records    *)
(* the ConsumeEvents call that ran last.                                   *)
(***************************************************************************)
EXTENDS Integers, Sequences, FiniteSets, TLC

VARIABLES market, user, token, last, repeated, built, queue, crank

vars == <<market, user, token, last, repeated, built, queue, crank>>

(***************************************************************************)
(* Bounds of the model.                                                    *)
(***************************************************************************)
MaxFee == 2
MaxFree == 2
MaxFaults == 1
MaxParamLen == 2
MaxListed == 2
MaxEvents == 2

(***************************************************************************)
(* Addresses.                                                              *)
(***************************************************************************)
PROGRAM_ID == "dex_program"
SPL_TOKEN_ID == "spl_token_program"
AAOB_ID == "aaob_program"
OTHER_PROGRAM == "other_program"

MarketKeys == {"M1", "MF"}
UserKeys == {"U1", "U2"}
TokenKeys == {"QV", "BV", "DQ", "DB"}
NoKey == "-"

\* The program owning each account: M1 is a market of this program, MF is a
\* market-shaped account created by a foreign program.
AccountOwner(key) ==
    CASE key = "M1" -> PROGRAM_ID
      [] key = "MF" -> OTHER_PROGRAM
      [] key \in UserKeys -> PROGRAM_ID
      [] key \in TokenKeys -> SPL_TOKEN_ID
      [] OTHER -> "system_program"

\* Token accounts as the token program sees them.
TokenMint(key) == IF key \in {"QV", "DQ"} THEN "quote" ELSE "base"
TokenAuthority(key) == IF key \in {"QV", "BV"} THEN "A1" ELSE "O1"

(***************************************************************************)
(* Program-derived authority.                                              *)
(***************************************************************************)
\* Pubkey::create_program_address(&[market key, &[nonce]], program_id):
\* a hash of the seeds and the program id, or an error when the hash lands
\* on the curve.  The table is injective on the seeds it accepts.
create_program_address(market_key, nonce, program_id) ==
    CASE program_id = PROGRAM_ID /\ market_key = "M1" /\ nonce = 254 -> "A1"
      [] program_id = PROGRAM_ID /\ market_key = "MF" /\ nonce = 255 -> "AF"
      [] program_id = PROGRAM_ID /\ market_key = "MF" /\ nonce = 254 -> "AF254"
      [] OTHER -> "InvalidSeeds"

(***************************************************************************)
(* utils: the checks return Ok or the error they were given.               *)
(***************************************************************************)
check_signer(account) ==
    IF account.is_signer THEN "Ok" ELSE "MissingRequiredSignature"

check_account_key(account, key, error) ==
    IF account.key = key THEN "Ok" ELSE error

check_account_owner(account, owner, error) ==
    IF AccountOwner(account.key) = owner THEN "Ok" ELSE error

\* Result::unwrap(): the value on Ok, a panic (abort without error code)
\* on Err.
unwrap(result) == IF result = "Ok" THEN "Ok" ELSE "Panic"

\* next_account_info over slots 1..n of the account list.
next_account_infos(accounts, n) ==
    IF Len(accounts) < n THEN "NotEnoughAccountKeys" ELSE "Ok"

(***************************************************************************)
(* Trace steps.                                                            *)
(***************************************************************************)
ReadStep(key) ==
    [kind |-> "read", acct |-> key, src |-> NoKey, dst |-> NoKey,
     auth |-> NoKey, signed |-> FALSE, amount |-> 0, ok |-> TRUE]

WriteStep(key) ==
    [kind |-> "write", acct |-> key, src |-> NoKey, dst |-> NoKey,
     auth |-> NoKey, signed |-> FALSE, amount |-> 0, ok |-> TRUE]

TransferStep(ix, signed, ok) ==
    [kind |-> "transfer", acct |-> NoKey, src |-> ix.src, dst |-> ix.dst,
     auth |-> ix.auth, signed |-> signed, amount |-> ix.amount, ok |-> ok]

(***************************************************************************)
(* Token Transfer Invoker.                                                 *)
(***************************************************************************)
\* spl_token::instruction::transfer(token program, source, destination,
\* authority, signers = [], amount)
transfer_instruction(source, destination, authority, amount) ==
    [src |-> source, dst |-> destination, auth |-> authority, amount |-> amount]

\* The token program's Transfer on the balances `tok'.
spl_token_transfer(tok, ix, signed) ==
    IF /\ ix.src \in TokenKeys
       /\ ix.dst \in TokenKeys
       /\ TokenMint(ix.src) = TokenMint(ix.dst)
       /\ tok[ix.src] >= ix.amount
       /\ TokenAuthority(ix.src) = ix.auth
       /\ signed
    THEN [res |-> "Ok",
          token |-> IF ix.src = ix.dst THEN tok
                    ELSE [tok EXCEPT ![ix.src] = @ - ix.amount,
                                     ![ix.dst] = @ + ix.amount]]
    ELSE [res |-> "TokenError", token |-> tok]

\* invoke_signed(instruction, account_infos, &[&[market key, &[nonce]]]):
\* the callee sees the authority as a signer only when the seeds derive it,
\* and every account the instruction names must be among account_infos.
invoke_signed(tok, ix, account_infos, seed_market, seed_nonce) ==
    LET signed == create_program_address(seed_market, seed_nonce, PROGRAM_ID) = ix.auth
        r == IF {ix.src, ix.dst, ix.auth} \subseteq account_infos
             THEN spl_token_transfer(tok, ix, signed)
             ELSE [res |-> "TokenError", token |-> tok]
    IN  [res |-> r.res, token |-> r.token,
         step |-> TransferStep(ix, signed, r.res = "Ok")]

(***************************************************************************)
(* Outcome of a handler: its result and trace, and the working copy of the *)
(* chain state it leaves.                                                  *)
(***************************************************************************)
Outcome(res, trace, m, u, t) ==
    [res |-> res, trace |-> trace, market |-> m, user |-> u, token |-> t]

(***************************************************************************)
(* SweepFees (program/src/processor/sweep_fees.rs)                         *)
(***************************************************************************)
sweep_fees_Accounts(accounts) ==
    [market |-> accounts[1],
     market_signer |-> accounts[2],
     market_admin |-> accounts[3],
     quote_vault |-> accounts[4],
     destination_token_account |-> accounts[5],
     spl_token_program |-> accounts[6]]

sweep_fees_parse(program_id, accounts) ==
    IF next_account_infos(accounts, 6) # "Ok" THEN next_account_infos(accounts, 6)
    ELSE LET a == sweep_fees_Accounts(accounts) IN
         IF check_signer(a.market_admin) # "Ok" THEN check_signer(a.market_admin)
         ELSE IF check_account_key(a.spl_token_program, SPL_TOKEN_ID, "InvalidSplTokenProgram") # "Ok"
              THEN "InvalidSplTokenProgram"
         ELSE check_account_owner(a.market, program_id, "InvalidStateAccountOwner")

\* DexState::get: the record stored in the market account, as a mutable view.
DexState_get(m, account) == m[account.key]

sweep_fees_check_market_signer(a, market_signer) ==
    check_account_key(a.market_signer, market_signer, "InvalidMarketSignerAccount")

sweep_fees_check_quote_vault(a, market_state) ==
    check_account_key(a.quote_vault, market_state.quote_vault, "InvalidQuoteVaultAccount")

\* Variant: the admin key not compared with the stored admin.
sweep_fees_check_market_admin_skipped(a, market_state) == "Ok"

sweep_fees_check_market_admin(a, market_state) ==
    check_account_key(a.market_admin, market_state.admin, "InvalidMarketAdminAccount")

sweep_fees_check_accounts(program_id, market_state, a) ==
    LET market_signer ==
            create_program_address(a.market.key, market_state.signer_nonce % 256, program_id)
    IN  IF market_signer = "InvalidSeeds" THEN "InvalidSeeds"
        ELSE IF sweep_fees_check_market_signer(a, market_signer) # "Ok"
             THEN sweep_fees_check_market_signer(a, market_signer)
        ELSE IF sweep_fees_check_quote_vault(a, market_state) # "Ok"
             THEN sweep_fees_check_quote_vault(a, market_state)
        ELSE sweep_fees_check_market_admin(a, market_state)

sweep_fees_amount(market_state) == market_state.accumulated_fees

\* Variant: the zero-fee check left out.
sweep_fees_no_fees_skipped(market_state) == FALSE

sweep_fees_no_fees(market_state) == market_state.accumulated_fees = 0

\* Variant: the counter left as it was after the transfer.
sweep_fees_clear_forgotten(market_state) == market_state

sweep_fees_clear(market_state) == [market_state EXCEPT !.accumulated_fees = 0]

sweep_fees_process(program_id, accounts, m, u, t) ==
    LET parsed == sweep_fees_parse(program_id, accounts) IN
    IF parsed # "Ok" THEN Outcome(parsed, <<>>, m, u, t)
    ELSE
    LET a == sweep_fees_Accounts(accounts)
        market_state == DexState_get(m, a.market)
        tr1 == <<ReadStep(a.market.key)>>
        checked == sweep_fees_check_accounts(program_id, market_state, a)
    IN
    IF checked # "Ok" THEN Outcome(checked, tr1, m, u, t)
    ELSE
    LET ix == transfer_instruction(a.quote_vault.key, a.destination_token_account.key,
                                   a.market_signer.key, sweep_fees_amount(market_state))
    IN
    IF sweep_fees_no_fees(market_state) THEN Outcome("NoOp", tr1, m, u, t)
    ELSE
    LET inv == invoke_signed(t, ix,
                             {a.spl_token_program.key, a.quote_vault.key,
                              a.destination_token_account.key, a.market_signer.key},
                             a.market.key, market_state.signer_nonce % 256)
        tr2 == Append(tr1, inv.step)
    IN
    IF inv.res # "Ok" THEN Outcome(inv.res, tr2, m, u, inv.token)
    ELSE Outcome("Ok", Append(tr2, WriteStep(a.market.key)),
                 [m EXCEPT ![a.market.key] = sweep_fees_clear(market_state)],
                 u, inv.token)

(***************************************************************************)
(* Settle (src/processor/settle.rs)                                        *)
(***************************************************************************)
settle_Accounts(accounts) ==
    [aaob_program |-> accounts[1],
     spl_token_program |-> accounts[2],
     market |-> accounts[3],
     base_vault |-> accounts[4],
     quote_vault |-> accounts[5],
     market_signer |-> accounts[6],
     user |-> accounts[7],
     user_owner |-> accounts[8],
     destination_base_account |-> accounts[9],
     destination_quote_account |-> accounts[10]]

settle_parse(program_id, accounts) ==
    IF next_account_infos(accounts, 10) # "Ok" THEN next_account_infos(accounts, 10)
    ELSE LET a == settle_Accounts(accounts) IN
         IF unwrap(check_signer(a.user_owner)) # "Ok" THEN unwrap(check_signer(a.user_owner))
         ELSE unwrap(check_account_key(a.spl_token_program, SPL_TOKEN_ID, "InvalidArgument"))

\* DexState::deserialize(market data)?.check()?: the record stored in the
\* market account, read from its bytes alone.
DexState_deserialize(m, account) == m[account.key]

\* UserAccount::parse(user account)
UserAccount_parse(u, account) == u[account.key]

\* Variant: the stored owner not compared with the signing owner.
load_user_account_owner_ok_skipped(user_account, a) == TRUE

load_user_account_owner_ok(user_account, a) ==
    user_account.owner = a.user_owner.key

load_user_account_market_ok(user_account, a) ==
    user_account.market = a.market.key

load_user_account(u, a) ==
    LET user_account == UserAccount_parse(u, a.user) IN
    IF ~load_user_account_owner_ok(user_account, a) THEN "InvalidArgument"
    ELSE IF ~load_user_account_market_ok(user_account, a) THEN "InvalidArgument"
    ELSE "Ok"

settle_check_accounts(program_id, market_state, a) ==
    LET market_signer ==
            create_program_address(a.market.key, market_state.signer_nonce, program_id)
    IN  IF market_signer = "InvalidSeeds" THEN "InvalidSeeds"
        ELSE IF unwrap(check_account_key(a.market_signer, market_signer, "InvalidArgument")) # "Ok"
             THEN "Panic"
        ELSE IF unwrap(check_account_key(a.base_vault, market_state.base_vault, "InvalidArgument")) # "Ok"
             THEN "Panic"
        ELSE IF unwrap(check_account_key(a.quote_vault, market_state.quote_vault, "InvalidArgument")) # "Ok"
             THEN "Panic"
        ELSE unwrap(check_account_key(a.aaob_program, market_state.aaob_program, "InvalidArgument"))

\* Variant: the quote transfer sized by the base balance.
settle_quote_amount_swapped(user_account) == user_account.base_token_free

settle_quote_amount(user_account) == user_account.quote_token_free

\* Variant: the base transfer sized at nothing.
settle_base_amount_none(user_account) == 0

settle_base_amount(user_account) == user_account.base_token_free

\* Variant: the result of the second transfer dropped.
settle_base_transfer_failed_ignored(inv) == FALSE

\* The `?' on the result of the second invoke_signed: the handler returns
\* early exactly when the transfer failed.
settle_base_transfer_failed(inv) == inv.res # "Ok"

\* Variant: the free fields written back as they were.
settle_clear_forgotten(user_account) == user_account

settle_clear(user_account) ==
    [user_account EXCEPT !.quote_token_free = 0, !.base_token_free = 0]

\* Variant: the record written back with its fee counter reset.
settle_write_market_fees_reset(m, a, market_state) ==
    [m EXCEPT ![a.market.key] = [market_state EXCEPT !.accumulated_fees = 0]]

\* market_state.serialize(&mut market_data): the record that was read, written
\* back over the market account's data.
settle_write_market(m, a, market_state) ==
    [m EXCEPT ![a.market.key] = market_state]

settle_process(program_id, accounts, m, u, t) ==
    LET parsed == settle_parse(program_id, accounts) IN
    IF parsed # "Ok" THEN Outcome(parsed, <<>>, m, u, t)
    ELSE
    LET a == settle_Accounts(accounts)
        market_state == DexState_deserialize(m, a.market)
        tr1 == <<ReadStep(a.market.key), ReadStep(a.user.key)>>
        loaded == load_user_account(u, a)
    IN
    IF loaded # "Ok" THEN Outcome(loaded, tr1, m, u, t)
    ELSE
    LET user_account == UserAccount_parse(u, a.user)
        m2 == settle_write_market(m, a, market_state)
        tr2 == Append(tr1, WriteStep(a.market.key))
        checked == unwrap(settle_check_accounts(program_id, market_state, a))
    IN
    IF checked # "Ok" THEN Outcome(checked, tr2, m2, u, t)
    ELSE
    LET ixq == transfer_instruction(market_state.quote_vault,
                                    a.destination_quote_account.key,
                                    a.market_signer.key,
                                    settle_quote_amount(user_account))
        invq == invoke_signed(t, ixq,
                              {a.spl_token_program.key, a.quote_vault.key,
                               a.destination_quote_account.key, a.market_signer.key},
                              a.market.key, market_state.signer_nonce)
        tr3 == Append(tr2, invq.step)
    IN
    IF invq.res # "Ok" THEN Outcome(invq.res, tr3, m2, u, invq.token)
    ELSE
    LET ixb == transfer_instruction(market_state.base_vault,
                                    a.destination_base_account.key,
                                    a.market_signer.key,
                                    settle_base_amount(user_account))
        invb == invoke_signed(invq.token, ixb,
                              {a.spl_token_program.key, a.base_vault.key,
                               a.destination_base_account.key, a.market_signer.key},
                              a.market.key, market_state.signer_nonce)
        tr4 == Append(tr3, invb.step)
    IN
    IF settle_base_transfer_failed(invb) THEN Outcome(invb.res, tr4, m2, u, invb.token)
    ELSE Outcome("Ok", Append(tr4, WriteStep(a.user.key)), m2,
                 [u EXCEPT ![a.user.key] = settle_clear(user_account)],
                 invb.token)

(***************************************************************************)
(* Instruction builders (program/src/instruction.rs)                       *)
(***************************************************************************)
SYSTEM_PROGRAM_ID == "system_program"

\* enum DexInstruction, in declaration order; `*self as u64' is the position
\* of the variant, counted from 0.
DexInstruction ==
    <<"CreateMarket", "NewOrder", "CancelOrder", "ConsumeEvents", "Settle",
      "InitializeAccount", "SweepFees", "CloseAccount", "CloseMarket">>

as_u64(variant) ==
    (CHOOSE i \in 1..Len(DexInstruction) : DexInstruction[i] = variant) - 1

\* bytes_of(&u64): the 8 bytes of the value, least significant first.  A
\* discriminant is far below 2^64, so no reduction to the width is needed.
RECURSIVE le_bytes(_, _)
le_bytes(n, width) ==
    IF width = 0 THEN <<>>
    ELSE <<n % 256>> \o le_bytes(n \div 256, width - 1)

bytes_of_u64(n) == le_bytes(n, 8)

\* DexInstruction::serialize(params): the tag bytes, then the bytes of the
\* parameter record (given here as its byte image).
serialize(variant, params) == bytes_of_u64(as_u64(variant)) \o params

\* The account table documented on DexInstruction::Settle.
Settle_account_table ==
    <<[role |-> "spl_token_program", is_writable |-> FALSE, is_signer |-> FALSE],
      [role |-> "market", is_writable |-> FALSE, is_signer |-> FALSE],
      [role |-> "base_vault", is_writable |-> TRUE, is_signer |-> FALSE],
      [role |-> "quote_vault", is_writable |-> TRUE, is_signer |-> FALSE],
      [role |-> "market_signer", is_writable |-> FALSE, is_signer |-> FALSE],
      [role |-> "user", is_writable |-> TRUE, is_signer |-> FALSE],
      [role |-> "user_owner", is_writable |-> FALSE, is_signer |-> TRUE],
      [role |-> "destination_base_account", is_writable |-> TRUE, is_signer |-> FALSE],
      [role |-> "destination_quote_account", is_writable |-> TRUE, is_signer |-> FALSE]>>

\* The account table documented on DexInstruction::SweepFees.
SweepFees_account_table ==
    <<[role |-> "market", is_writable |-> TRUE, is_signer |-> FALSE],
      [role |-> "market_signer", is_writable |-> FALSE, is_signer |-> FALSE],
      [role |-> "market_admin", is_writable |-> FALSE, is_signer |-> TRUE],
      [role |-> "quote_vault", is_writable |-> TRUE, is_signer |-> FALSE],
      [role |-> "destination_token_account", is_writable |-> TRUE, is_signer |-> FALSE],
      [role |-> "spl_token_program", is_writable |-> FALSE, is_signer |-> FALSE]>>

AccountMeta_new(pubkey, is_signer) ==
    [pubkey |-> pubkey, is_signer |-> is_signer, is_writable |-> TRUE]

AccountMeta_new_readonly(pubkey, is_signer) ==
    [pubkey |-> pubkey, is_signer |-> is_signer, is_writable |-> FALSE]

Instruction(program_id, accounts, data) ==
    [program_id |-> program_id, accounts |-> accounts, data |-> data]

create_market(dex_program_id, market_account, orderbook, base_vault, quote_vault, aaob_program, market_admin, create_market_params) ==
    Instruction(dex_program_id,
        <<AccountMeta_new(market_account, FALSE),
          AccountMeta_new_readonly(orderbook, FALSE),
          AccountMeta_new_readonly(base_vault, FALSE),
          AccountMeta_new_readonly(quote_vault, FALSE),
          AccountMeta_new_readonly(aaob_program, FALSE),
          AccountMeta_new_readonly(market_admin, FALSE)>>,
        serialize("CreateMarket", create_market_params))

new_order(dex_program_id, agnostic_orderbook_program_id, market_account, market_signer, orderbook, event_queue, bids, asks, base_vault, quote_vault, user_account, user_token_account, user_account_owner, discount_account, new_order_params) ==
    Instruction(dex_program_id,
        <<AccountMeta_new_readonly(agnostic_orderbook_program_id, FALSE),
          AccountMeta_new_readonly(SPL_TOKEN_ID, FALSE),
          AccountMeta_new_readonly(SYSTEM_PROGRAM_ID, FALSE),
          AccountMeta_new(market_account, FALSE),
          AccountMeta_new_readonly(market_signer, FALSE),
          AccountMeta_new(orderbook, FALSE),
          AccountMeta_new(event_queue, FALSE),
          AccountMeta_new(bids, FALSE),
          AccountMeta_new(asks, FALSE),
          AccountMeta_new(base_vault, FALSE),
          AccountMeta_new(quote_vault, FALSE),
          AccountMeta_new(user_account, FALSE),
          AccountMeta_new(user_token_account, FALSE),
          AccountMeta_new(user_account_owner, TRUE)>>
          \o (IF discount_account = NoKey THEN <<>>
              ELSE <<AccountMeta_new_readonly(discount_account, FALSE)>>),
        serialize("NewOrder", new_order_params))

cancel_order(dex_program_id, agnostic_orderbook_program_id, market_account, market_signer, orderbook, event_queue, bids, asks, user_account, user_account_owner, cancel_order_params) ==
    Instruction(dex_program_id,
        <<AccountMeta_new_readonly(agnostic_orderbook_program_id, FALSE),
          AccountMeta_new_readonly(market_account, FALSE),
          AccountMeta_new_readonly(market_signer, FALSE),
          AccountMeta_new(orderbook, FALSE),
          AccountMeta_new(event_queue, FALSE),
          AccountMeta_new(bids, FALSE),
          AccountMeta_new(asks, FALSE),
          AccountMeta_new(user_account, FALSE),
          AccountMeta_new_readonly(user_account_owner, TRUE)>>,
        serialize("CancelOrder", cancel_order_params))

consume_events(dex_program_id, agnostic_orderbook_program_id, market_account, market_signer, orderbook, event_queue, reward_target, user_accounts, consume_events_params) ==
    Instruction(dex_program_id,
        <<AccountMeta_new_readonly(agnostic_orderbook_program_id, FALSE),
          AccountMeta_new(market_account, FALSE),
          AccountMeta_new_readonly(market_signer, FALSE),
          AccountMeta_new(orderbook, FALSE),
          AccountMeta_new(event_queue, FALSE),
          AccountMeta_new(reward_target, FALSE)>>
          \o [i \in 1..Len(user_accounts) |-> AccountMeta_new(user_accounts[i], FALSE)],
        serialize("ConsumeEvents", consume_events_params))

initialize_account(dex_program_id, user_account, user_account_owner, fee_payer, params) ==
    Instruction(dex_program_id,
        <<AccountMeta_new_readonly(SYSTEM_PROGRAM_ID, FALSE),
          AccountMeta_new(user_account, FALSE),
          AccountMeta_new_readonly(user_account_owner, TRUE),
          AccountMeta_new(fee_payer, TRUE)>>,
        serialize("InitializeAccount", params))

sweep_fees(dex_program_id, market_account, market_signer, market_admin, quote_vault, destination_token_account) ==
    Instruction(dex_program_id,
        <<AccountMeta_new(market_account, FALSE),
          AccountMeta_new_readonly(market_signer, FALSE),
          AccountMeta_new_readonly(market_admin, TRUE),
          AccountMeta_new(quote_vault, FALSE),
          AccountMeta_new(destination_token_account, FALSE),
          AccountMeta_new_readonly(SPL_TOKEN_ID, FALSE)>>,
        serialize("SweepFees", <<>>))

settle(dex_program_id, market_account, market_signer, base_vault, quote_vault, user_account, user_account_owner, destination_base_account, destination_quote_account) ==
    Instruction(dex_program_id,
        <<AccountMeta_new_readonly(SPL_TOKEN_ID, FALSE),
          AccountMeta_new_readonly(market_account, FALSE),
          AccountMeta_new(base_vault, FALSE),
          AccountMeta_new(quote_vault, FALSE),
          AccountMeta_new_readonly(market_signer, FALSE),
          AccountMeta_new(user_account, FALSE),
          AccountMeta_new_readonly(user_account_owner, TRUE),
          AccountMeta_new(destination_base_account, FALSE),
          AccountMeta_new(destination_quote_account, FALSE)>>,
        serialize("Settle", <<>>))

close_account(dex_program_id, user_account, user_account_owner, target_lamports_account) ==
    Instruction(dex_program_id,
        <<AccountMeta_new(user_account, FALSE),
          AccountMeta_new_readonly(user_account_owner, TRUE),
          AccountMeta_new(target_lamports_account, FALSE)>>,
        serialize("CloseAccount", <<>>))

close_market(dex_program_id, market_key, base_vault, quote_vault, market_signer, orderbook, event_queue, bids, asks, aaob_program, market_admin, target_lamports_account) ==
    Instruction(dex_program_id,
        <<AccountMeta_new(market_key, FALSE),
          AccountMeta_new(base_vault, FALSE),
          AccountMeta_new(quote_vault, FALSE),
          AccountMeta_new(market_signer, FALSE),
          AccountMeta_new(orderbook, FALSE),
          AccountMeta_new(event_queue, FALSE),
          AccountMeta_new(bids, FALSE),
          AccountMeta_new(asks, FALSE),
          AccountMeta_new_readonly(aaob_program, FALSE),
          AccountMeta_new_readonly(market_admin, TRUE),
          AccountMeta_new(target_lamports_account, FALSE)>>,
        serialize("CloseAccount", <<>>))

(***************************************************************************)
(* The calls submitted to the program.  A call is a positional list of     *)
(* account infos: the well-formed list for market M1 with at most          *)
(* MaxFaults slots replaced, flags dropped or the list cut short, or the   *)
(* list a caller builds around the foreign market-shaped account MF.       *)
(***************************************************************************)
AccountInfo(key, is_signer) == [key |-> key, is_signer |-> is_signer]

\* The accounts the host hands to the handler for an instruction: the ones
\* the instruction lists, in its order, signed where it says so.
account_infos(instruction) ==
    [i \in 1..Len(instruction.accounts) |->
        AccountInfo(instruction.accounts[i].pubkey, instruction.accounts[i].is_signer)]

RECURSIVE FaultSets(_, _)
FaultSets(dims, n) ==
    IF n = 0 THEN {{}}
    ELSE FaultSets(dims, n - 1) \cup
         {S \cup {d} : S \in FaultSets(dims, n - 1), d \in dims}

OtherOf(key) ==
    CASE key = "M1" -> "MF"
      [] key = "A1" -> "AF"
      [] key = "U1" -> "U2"
      [] key = "O1" -> "O2"
      [] key = "ADMIN" -> "O2"
      [] key = "QV" -> "BV" [] key = "BV" -> "QV"
      [] key = "DQ" -> "DB" [] key = "DB" -> "DQ"
      [] OTHER -> OTHER_PROGRAM

SettleSchema ==
    <<AAOB_ID, SPL_TOKEN_ID, "M1", "BV", "QV", "A1", "U1", "O1", "DB", "DQ">>

SettleForeignMarket ==
    <<AAOB_ID, SPL_TOKEN_ID, "MF", "BV", "QV", "AF", "U2", "O2", "DB", "DQ">>

\* Faults 1..10 replace the slot's key, 11 drops the owner's signature,
\* 12 cuts the list short.
SettleCall(base, F) ==
    LET full == [i \in 1..10 |->
                    AccountInfo(IF i \in F THEN OtherOf(base[i]) ELSE base[i],
                                i = 8 /\ 11 \notin F)]
    IN  IF 12 \in F THEN SubSeq(full, 1, 9) ELSE full

SettleCalls ==
    {SettleCall(SettleSchema, F) : F \in FaultSets(1..12, MaxFaults)}
        \cup {SettleCall(SettleForeignMarket, {})}

SweepFeesSchema ==
    <<"M1", "A1", "ADMIN", "QV", "DQ", SPL_TOKEN_ID>>

SweepFeesForeignMarket ==
    <<"MF", "AF", "O2", "QV", "DQ", SPL_TOKEN_ID>>

\* Faults 1..6 replace the slot's key, 7 drops the admin's signature,
\* 8 cuts the list short.
SweepFeesCall(base, F) ==
    LET full == [i \in 1..6 |->
                    AccountInfo(IF i \in F THEN OtherOf(base[i]) ELSE base[i],
                                i = 3 /\ 7 \notin F)]
    IN  IF 8 \in F THEN SubSeq(full, 1, 5) ELSE full

SweepFeesCalls ==
    {SweepFeesCall(SweepFeesSchema, F) : F \in FaultSets(1..8, MaxFaults)}
        \cup {SweepFeesCall(SweepFeesForeignMarket, {})}

(***************************************************************************)
(* The state machine.                                                      *)
(***************************************************************************)
NoCall == [op |-> "none", accounts |-> <<>>, res |-> "none", trace |-> <<>>]

\* No ConsumeEvents call made yet.
NoCrank == [accounts |-> <<>>, res |-> "none", outcomes |-> <<>>, skipped |-> 0]

NoInstruction ==
    [builder |-> "none", params |-> <<>>, args |-> <<>>,
     instruction |-> [program_id |-> NoKey, accounts |-> <<>>, data |-> <<>>]]

InitLedger ==
    \E f \in 0..MaxFee, q \in 0..MaxFree, b \in 0..MaxFree :
        /\ market = [k \in MarketKeys |->
                        IF k = "M1"
                        THEN [signer_nonce |-> 254, base_vault |-> "BV",
                              quote_vault |-> "QV", aaob_program |-> AAOB_ID,
                              admin |-> "ADMIN", accumulated_fees |-> f]
                        ELSE [signer_nonce |-> 255, base_vault |-> "BV",
                              quote_vault |-> "QV", aaob_program |-> AAOB_ID,
                              admin |-> "O2", accumulated_fees |-> 1]]
        /\ user = [k \in UserKeys |->
                        IF k = "U1"
                        THEN [owner |-> "O1", market |-> "M1",
                              base_token_free |-> b, quote_token_free |-> q,
                              base_token_locked |-> 1, quote_token_locked |-> 1]
                        ELSE [owner |-> "O2", market |-> "MF",
                              base_token_free |-> 1, quote_token_free |-> 1,
                              base_token_locked |-> 0, quote_token_locked |-> 0]]
        /\ token = [k \in TokenKeys |->
                        CASE k = "QV" -> f + q + 1
                          [] k = "BV" -> b + 1
                          [] OTHER -> 0]
        /\ last = NoCall
        /\ repeated = FALSE

Init ==
    /\ InitLedger
    /\ built = NoInstruction
    /\ queue = <<>>
    /\ crank = NoCrank

\* The host ledger commits the working copy of a call that returned Ok and
\* discards the working copy of a call that failed.
Commit(o) ==
    IF o.res = "Ok"
    THEN /\ market' = o.market
         /\ user' = o.user
         /\ token' = o.token
    ELSE UNCHANGED <<market, user, token>>

Settle ==
    \E accounts \in SettleCalls :
        LET o == settle_process(PROGRAM_ID, accounts, market, user, token) IN
        /\ Commit(o)
        /\ last' = [op |-> "Settle", accounts |-> accounts, res |-> o.res, trace |-> o.trace]
        /\ repeated' = (/\ last.op = "Settle"
                        /\ last.res = "Ok"
                        /\ Len(accounts) >= 7
                        /\ last.accounts[7].key = accounts[7].key)
        /\ UNCHANGED <<built, queue, crank>>

SweepFees ==
    \E accounts \in SweepFeesCalls :
        LET o == sweep_fees_process(PROGRAM_ID, accounts, market, user, token) IN
        /\ Commit(o)
        /\ last' = [op |-> "SweepFees", accounts |-> accounts, res |-> o.res, trace |-> o.trace]
        /\ repeated' = (/\ last.op = "SweepFees"
                        /\ last.res = "Ok"
                        /\ Len(accounts) >= 1
                        /\ last.accounts[1].key = accounts[1].key)
        /\ UNCHANGED <<built, queue, crank>>

Next == Settle \/ SweepFees

Spec == Init /\ [][Next]_vars

(***************************************************************************)
(* The client side: each action builds one instruction with a builder.     *)
(* `built' records the builder used, the byte image of the parameter record   *)
(* it was given, the accounts it was given by role, and the instruction.   *)
(***************************************************************************)
Bytes == {0, 1, 255}

RECURSIVE ByteSeqs(_)
ByteSeqs(n) ==
    IF n = 0 THEN {<<>>}
    ELSE ByteSeqs(n - 1) \cup
         {Append(b, x) : b \in {c \in ByteSeqs(n - 1) : Len(c) = n - 1}, x \in Bytes}

ParamImages == ByteSeqs(MaxParamLen)

RECURSIVE KeySeqs(_, _)
KeySeqs(keys, n) ==
    IF n = 0 THEN {<<>>}
    ELSE KeySeqs(keys, n - 1) \cup
         {Append(b, x) : b \in {c \in KeySeqs(keys, n - 1) : Len(c) = n - 1}, x \in keys}

Built(builder, params, args, instruction) ==
    [builder |-> builder, params |-> params, args |-> args,
     instruction |-> instruction]

CreateMarketBuilds ==
    {Built("create_market", params, [market |-> m],
                   create_market(PROGRAM_ID, m, "orderbook", "BV", "QV",
                                 AAOB_ID, "ADMIN", params)) :
        m \in MarketKeys, params \in ParamImages}

BuildCreateMarket ==
    /\ built' \in CreateMarketBuilds
    /\ UNCHANGED <<market, user, token, last, repeated, queue, crank>>

NewOrderBuilds ==
    {Built("new_order", params, [market |-> m, user |-> u],
                   new_order(PROGRAM_ID, AAOB_ID, m, "A1", "orderbook",
                             "event_queue", "bids", "asks", "BV", "QV", u,
                             "DQ", "O1", d, params)) :
        m \in MarketKeys, u \in UserKeys, d \in {NoKey, "discount"}, params \in ParamImages}

BuildNewOrder ==
    /\ built' \in NewOrderBuilds
    /\ UNCHANGED <<market, user, token, last, repeated, queue, crank>>

CancelOrderBuilds ==
    {Built("cancel_order", params, [market |-> m, user |-> u],
                   cancel_order(PROGRAM_ID, AAOB_ID, m, "A1", "orderbook",
                                "event_queue", "bids", "asks", u, "O1",
                                params)) :
        m \in MarketKeys, u \in UserKeys, params \in ParamImages}

BuildCancelOrder ==
    /\ built' \in CancelOrderBuilds
    /\ UNCHANGED <<market, user, token, last, repeated, queue, crank>>

ConsumeEventsBuilds ==
    {Built("consume_events", params, [market |-> m, user_accounts |-> us],
                   consume_events(PROGRAM_ID, AAOB_ID, m, "A1", "orderbook",
                                  "event_queue", "reward_target", us, params)) :
        m \in MarketKeys, us \in KeySeqs(UserKeys, MaxListed), params \in ParamImages}

BuildConsumeEvents ==
    /\ built' \in ConsumeEventsBuilds
    /\ UNCHANGED <<market, user, token, last, repeated, queue, crank>>

InitializeAccountBuilds ==
    {Built("initialize_account", params, [user |-> u],
                   initialize_account(PROGRAM_ID, u, "O1", "fee_payer", params)) :
        u \in UserKeys, params \in ParamImages}

BuildInitializeAccount ==
    /\ built' \in InitializeAccountBuilds
    /\ UNCHANGED <<market, user, token, last, repeated, queue, crank>>

SweepFeesBuilds ==
    {Built("sweep_fees", <<>>,
                   [market |-> m, market_signer |-> "A1",
                    market_admin |-> "ADMIN", quote_vault |-> "QV",
                    destination_token_account |-> "DQ"],
                   sweep_fees(PROGRAM_ID, m, "A1", "ADMIN", "QV", "DQ")) :
        m \in MarketKeys}

BuildSweepFees ==
    /\ built' \in SweepFeesBuilds
    /\ UNCHANGED <<market, user, token, last, repeated, queue, crank>>

SettleBuilds ==
    {Built("settle", <<>>,
                   [market |-> m, market_signer |-> "A1",
                    base_vault |-> "BV", quote_vault |-> "QV",
                    user |-> u, user_owner |-> "O1",
                    destination_base_account |-> "DB",
                    destination_quote_account |-> "DQ"],
                   settle(PROGRAM_ID, m, "A1", "BV", "QV", u, "O1", "DB", "DQ")) :
        m \in MarketKeys, u \in UserKeys}

BuildSettle ==
    /\ built' \in SettleBuilds
    /\ UNCHANGED <<market, user, token, last, repeated, queue, crank>>

CloseAccountBuilds ==
    {Built("close_account", <<>>, [user |-> u],
                   close_account(PROGRAM_ID, u, "O1", "target")) :
        u \in UserKeys}

BuildCloseAccount ==
    /\ built' \in CloseAccountBuilds
    /\ UNCHANGED <<market, user, token, last, repeated, queue, crank>>

CloseMarketBuilds ==
    {Built("close_market", <<>>, [market |-> m],
                   close_market(PROGRAM_ID, m, "BV", "QV", "A1", "orderbook",
                                "event_queue", "bids", "asks", AAOB_ID,
                                "ADMIN", "target")) :
        m \in MarketKeys}

BuildCloseMarket ==
    /\ built' \in CloseMarketBuilds
    /\ UNCHANGED <<market, user, token, last, repeated, queue, crank>>

NextBuild ==
    \/ BuildCreateMarket
    \/ BuildNewOrder
    \/ BuildCancelOrder
    \/ BuildConsumeEvents
    \/ BuildInitializeAccount
    \/ BuildSweepFees
    \/ BuildSettle
    \/ BuildCloseAccount
    \/ BuildCloseMarket

\* The builders read no account, so one on-chain state is enough.
InitBuild ==
    /\ Init
    /\ market["M1"].accumulated_fees = 0
    /\ user["U1"].quote_token_free = 0
    /\ user["U1"].base_token_free = 0

SpecBuild == InitBuild /\ [][NextBuild]_vars

(***************************************************************************)
(* Crank / event consumer (ConsumeEvents).  The handler is not among the   *)
(* sources; it is modelled from section 4.6 of the specification.  The     *)
(* account list is the one the consume_events builder lays out: six fixed  *)
(* accounts, then the user accounts.  The reward paid to the reward target *)
(* moves lamports, which are not part of the modelled state.               *)
(***************************************************************************)
\* An entry of the external event queue: the user account it references and
\* the amounts a fill credits to that account's free balances.
Event(user_account, base_delta, quote_delta) ==
    [user_account |-> user_account, base_delta |-> base_delta,
     quote_delta |-> quote_delta]

Events ==
    {Event(k, 1, 0) : k \in UserKeys} \cup {Event(k, 0, 1) : k \in UserKeys}

RECURSIVE EventSeqs(_)
EventSeqs(n) ==
    IF n = 0 THEN {<<>>}
    ELSE EventSeqs(n - 1) \cup
         {Append(b, x) : b \in {c \in EventSeqs(n - 1) : Len(c) = n - 1}, x \in Events}

\* The user accounts a call supplies: every account after the six fixed ones.
consume_events_user_accounts(accounts) ==
    {accounts[i].key : i \in 7..Len(accounts)}

\* Variant: an event applied whether or not its account was supplied.
consume_events_present_unchecked(accounts, event) == TRUE

consume_events_present(accounts, event) ==
    event.user_account \in consume_events_user_accounts(accounts)

consume_events_apply(u, event) ==
    [u EXCEPT ![event.user_account].base_token_free = @ + event.base_delta,
              ![event.user_account].quote_token_free = @ + event.quote_delta]

\* One event after another, first in first out: applied when its account is
\* supplied, otherwise skipped and counted.
RECURSIVE consume_events_loop(_, _, _)
consume_events_loop(accounts, events, c) ==
    IF events = <<>> THEN c
    ELSE LET event == Head(events) IN
         consume_events_loop(accounts, Tail(events),
            IF consume_events_present(accounts, event)
            THEN [c EXCEPT !.user = consume_events_apply(c.user, event),
                           !.outcomes = Append(@, [event |-> event, outcome |-> "applied"])]
            ELSE [c EXCEPT !.skipped = @ + 1,
                           !.outcomes = Append(@, [event |-> event, outcome |-> "skipped"])])

\* Drains up to max_iterations events from the head of the queue; the queue
\* keeps the rest.
consume_events_process(accounts, q, u, max_iterations) ==
    LET n == IF Len(q) < max_iterations THEN Len(q) ELSE max_iterations
        c == consume_events_loop(accounts, SubSeq(q, 1, n),
                                 [user |-> u, outcomes |-> <<>>, skipped |-> 0])
    IN  [res |-> "Ok", user |-> c.user, queue |-> SubSeq(q, n + 1, Len(q)),
         outcomes |-> c.outcomes, skipped |-> c.skipped]

ConsumeEventsCalls ==
    {account_infos(consume_events(PROGRAM_ID, AAOB_ID, "M1", "A1", "orderbook",
                                  "event_queue", "reward_target", us, <<>>)) :
        us \in KeySeqs(UserKeys, MaxListed)}

ConsumeEvents ==
    \E accounts \in ConsumeEventsCalls, max_iterations \in 1..MaxEvents :
        LET o == consume_events_process(accounts, queue, user, max_iterations) IN
        /\ user' = o.user
        /\ queue' = o.queue
        /\ crank' = [accounts |-> accounts, res |-> o.res,
                     outcomes |-> o.outcomes, skipped |-> o.skipped]
        /\ UNCHANGED <<market, token, last, repeated, built>>

NextCrank == ConsumeEvents

\* The matching program has left up to MaxEvents events in the queue.
InitCrank ==
    /\ InitLedger
    /\ market["M1"].accumulated_fees = 0
    /\ user["U1"].quote_token_free = 0
    /\ user["U1"].base_token_free = 0
    /\ built = NoInstruction
    /\ queue \in EventSeqs(MaxEvents)
    /\ crank = NoCrank

SpecCrank == InitCrank /\ [][NextCrank]_vars

TypeOK ==
    /\ \A k \in MarketKeys : market[k].accumulated_fees \in 0..MaxFee
    /\ \A k \in UserKeys : user[k].quote_token_free \in Nat /\ user[k].base_token_free \in Nat
    /\ \A k \in TokenKeys : token[k] >= 0
    /\ last.op \in {"none", "Settle", "SweepFees"}
    /\ repeated \in BOOLEAN

(***************************************************************************)
(* Vocabulary of the properties.                                           *)
(***************************************************************************)
\* Error taxonomy of the design: the codes of each class.
StructuralError == {"NotEnoughAccountKeys"}
SignerError == {"MissingRequiredSignature"}
OwnershipError == {"InvalidSplTokenProgram", "InvalidStateAccountOwner"}
ArgumentError == {"InvalidArgument", "InvalidMarketSignerAccount",
                  "InvalidQuoteVaultAccount", "InvalidMarketAdminAccount"}

Transfers(trace) == SelectSeq(trace, LAMBDA s : s.kind = "transfer")
Writes(trace) == SelectSeq(trace, LAMBDA s : s.kind = "write")

\* The authority of a market as the stored bump derives it.
DerivedAuthority(m, market_key) ==
    create_program_address(market_key, m[market_key].signer_nonce, PROGRAM_ID)

\* A SweepFees account list on which every account check passes.
SweepFeesValid(accounts, m) ==
    /\ Len(accounts) >= 6
    /\ accounts[3].is_signer
    /\ accounts[6].key = SPL_TOKEN_ID
    /\ AccountOwner(accounts[1].key) = PROGRAM_ID
    /\ accounts[2].key = DerivedAuthority(m, accounts[1].key)
    /\ accounts[4].key = m[accounts[1].key].quote_vault
    /\ accounts[3].key = m[accounts[1].key].admin

\* A Settle account list on which every check of the handler passes.
SettleValid(accounts, m, u) ==
    /\ Len(accounts) >= 10
    /\ accounts[8].is_signer
    /\ accounts[2].key = SPL_TOKEN_ID
    /\ u[accounts[7].key].owner = accounts[8].key
    /\ u[accounts[7].key].market = accounts[3].key
    /\ accounts[6].key = DerivedAuthority(m, accounts[3].key)
    /\ accounts[4].key = m[accounts[3].key].base_vault
    /\ accounts[5].key = m[accounts[3].key].quote_vault
    /\ accounts[1].key = m[accounts[3].key].aaob_program

(***************************************************************************)
(* C1: a SweepFees call on a market whose accumulated_fees is 0 fails,     *)
(* issues no token transfer and leaves the market records as they were;    *)
(* when its account checks pass, the error it fails with is NoOp.          *)
(***************************************************************************)
C1_Step ==
    (/\ last'.op = "SweepFees"
     /\ Len(last'.accounts) >= 1
     /\ market[last'.accounts[1].key].accumulated_fees = 0)
    => /\ last'.res # "Ok"
       /\ Transfers(last'.trace) = <<>>
       /\ Writes(last'.trace) = <<>>
       /\ market' = market
       /\ SweepFeesValid(last'.accounts, market) => last'.res = "NoOp"

Thm_C1_SweepZeroFeesNoOp == [][C1_Step]_vars

Wit_C1_SweepZeroFeesNoOp ==
    /\ last.op = "SweepFees"
    /\ last.res = "NoOp"
    /\ SweepFeesValid(last.accounts, market)
    /\ market[last.accounts[1].key].accumulated_fees = 0
    /\ Transfers(last.trace) = <<>>

(***************************************************************************)
(* C2: a SweepFees call that passes all checks on a market with            *)
(* accumulated_fees = F > 0 issues exactly one transfer, signed by the     *)
(* market authority, from the market's quote vault to the destination      *)
(* account for exactly F; the call succeeds exactly when that transfer     *)
(* does, and the market record then stored has accumulated_fees = 0.  A    *)
(* SweepFees repeated on the same market right after a successful one      *)
(* fails (with NoOp when its checks pass) and transfers nothing.           *)
(***************************************************************************)
C2_Step ==
    (/\ last'.op = "SweepFees"
     /\ SweepFeesValid(last'.accounts, market)
     /\ market[last'.accounts[1].key].accumulated_fees > 0)
    => LET mk == last'.accounts[1].key
           tr == Transfers(last'.trace)
       IN  /\ Len(tr) = 1
           /\ tr[1].src = market[mk].quote_vault
           /\ tr[1].dst = last'.accounts[5].key
           /\ tr[1].amount = market[mk].accumulated_fees
           /\ tr[1].auth = DerivedAuthority(market, mk)
           /\ tr[1].signed
           /\ (last'.res = "Ok") = tr[1].ok
           /\ last'.res = "Ok" =>
                /\ market'[mk].accumulated_fees = 0
                /\ token'[tr[1].src] = token[tr[1].src] - tr[1].amount
                /\ token'[tr[1].dst] = token[tr[1].dst] + tr[1].amount

C2_Repeated ==
    (repeated /\ last.op = "SweepFees")
    => /\ last.res # "Ok"
       /\ Transfers(last.trace) = <<>>
       /\ SweepFeesValid(last.accounts, market) => last.res = "NoOp"

Thm_C2_SweepTransfersAndClears == [][C2_Step]_vars /\ []C2_Repeated

Wit_C2_SweepTransfersAndClears ==
    /\ repeated
    /\ last.op = "SweepFees"
    /\ last.res = "NoOp"
    /\ SweepFeesValid(last.accounts, market)
    /\ token["DQ"] > 0

(***************************************************************************)
(* C3: a Settle call that passes all checks on a user account with         *)
(* quote_free = Q and base_free = B issues its authority-signed transfers  *)
(* in this order: first Q from the market's quote vault to the destination *)
(* quote account, then B from the market's base vault to the destination   *)
(* base account; the user record is written, with both free fields 0, only *)
(* after both transfers have succeeded, and then the call succeeds.        *)
(***************************************************************************)
C3_Step ==
    (/\ last'.op = "Settle"
     /\ SettleValid(last'.accounts, market, user))
    => LET acc == last'.accounts
           mk == acc[3].key
           uk == acc[7].key
           tr == Transfers(last'.trace)
           userWritten == \E i \in 1..Len(last'.trace) :
                             last'.trace[i] = WriteStep(uk)
       IN  /\ Len(tr) \in {1, 2}
           /\ tr[1].src = market[mk].quote_vault
           /\ tr[1].dst = acc[10].key
           /\ tr[1].amount = user[uk].quote_token_free
           /\ tr[1].auth = DerivedAuthority(market, mk)
           /\ tr[1].signed
           /\ (Len(tr) = 2) = tr[1].ok
           /\ Len(tr) = 2 =>
                /\ tr[2].src = market[mk].base_vault
                /\ tr[2].dst = acc[9].key
                /\ tr[2].amount = user[uk].base_token_free
                /\ tr[2].auth = DerivedAuthority(market, mk)
                /\ tr[2].signed
           /\ userWritten = (Len(tr) = 2 /\ tr[1].ok /\ tr[2].ok)
           /\ userWritten =>
                /\ last'.trace[Len(last'.trace)] = WriteStep(uk)
                /\ last'.trace[Len(last'.trace) - 1] = tr[2]
                /\ last'.trace[Len(last'.trace) - 2] = tr[1]
                /\ last'.res = "Ok"
                /\ user'[uk].quote_token_free = 0
                /\ user'[uk].base_token_free = 0
           /\ ~userWritten => (last'.res # "Ok" /\ user' = user)

Thm_C3_SettleTransfersInOrder == [][C3_Step]_vars

Wit_C3_SettleTransfersInOrder ==
    /\ last.op = "Settle"
    /\ last.res = "Ok"
    /\ SettleValid(last.accounts, market, user)
    /\ Len(Transfers(last.trace)) = 2
    /\ Transfers(last.trace)[1].amount > 0
    /\ Transfers(last.trace)[2].amount > 0
    /\ Transfers(last.trace)[1].src = "QV"
    /\ Transfers(last.trace)[2].src = "BV"
    /\ user[last.accounts[7].key].quote_token_free = 0
    /\ user[last.accounts[7].key].base_token_free = 0

(***************************************************************************)
(* C4: Settle has no partial outcome: when the base transfer fails after   *)
(* the quote transfer succeeded, the call fails and the market records,    *)
(* the user records (quote_free and base_free included) and every token    *)
(* balance are what they were before the call.                             *)
(***************************************************************************)
C4_Step ==
    (/\ last'.op = "Settle"
     /\ Len(Transfers(last'.trace)) = 2
     /\ Transfers(last'.trace)[1].ok
     /\ ~Transfers(last'.trace)[2].ok)
    => /\ last'.res # "Ok"
       /\ market' = market
       /\ user' = user
       /\ token' = token

Thm_C4_SettleNoPartialOutcome == [][C4_Step]_vars

Wit_C4_SettleNoPartialOutcome ==
    /\ last.op = "Settle"
    /\ Len(Transfers(last.trace)) = 2
    /\ Transfers(last.trace)[1].ok
    /\ Transfers(last.trace)[1].amount > 0
    /\ ~Transfers(last.trace)[2].ok
    /\ last.res # "Ok"
    /\ user[last.accounts[7].key].quote_token_free = Transfers(last.trace)[1].amount
    /\ token[Transfers(last.trace)[1].dst] = 0

(***************************************************************************)
(* C5: Settle is idempotent at zero: a Settle on the same user account     *)
(* right after a successful Settle transfers only amounts 0 (two transfers *)
(* of 0 when it succeeds), leaves quote_free and base_free at 0, and       *)
(* leaves the whole chain state as the first Settle left it.               *)
(***************************************************************************)
C5_Repeated ==
    (repeated /\ last.op = "Settle")
    => LET tr == Transfers(last.trace)
           uk == last.accounts[7].key
       IN  /\ \A i \in 1..Len(tr) : tr[i].amount = 0
           /\ user[uk].quote_token_free = 0
           /\ user[uk].base_token_free = 0
           /\ SettleValid(last.accounts, market, user) => Len(tr) >= 1
           /\ last.res = "Ok" => (Len(tr) = 2 /\ tr[1].ok /\ tr[2].ok)

C5_Step ==
    (repeated' /\ last'.op = "Settle")
    => (market' = market /\ user' = user /\ token' = token)

Thm_C5_SettleIdempotentAtZero == []C5_Repeated /\ [][C5_Step]_vars

Wit_C5_SettleIdempotentAtZero ==
    /\ repeated
    /\ last.op = "Settle"
    /\ last.res = "Ok"
    /\ Len(Transfers(last.trace)) = 2
    /\ Transfers(last.trace)[1].amount = 0
    /\ Transfers(last.trace)[2].amount = 0
    /\ token["DQ"] > 0
    /\ token["DB"] > 0

(***************************************************************************)
(* C6: a Settle call in which the user record's stored owner differs from  *)
(* the owner account, or its stored market differs from the market         *)
(* account, fails, issues no transfer and leaves the user records and the  *)
(* token balances unchanged; when the owner has signed and the token       *)
(* program slot is right, so that the user record is reached, the error is *)
(* an ArgumentError.                                                       *)
(***************************************************************************)
C6_Step ==
    (/\ last'.op = "Settle"
     /\ Len(last'.accounts) >= 10
     /\ \/ user[last'.accounts[7].key].owner # last'.accounts[8].key
        \/ user[last'.accounts[7].key].market # last'.accounts[3].key)
    => /\ last'.res # "Ok"
       /\ Transfers(last'.trace) = <<>>
       /\ user' = user
       /\ token' = token
       /\ (last'.accounts[8].is_signer /\ last'.accounts[2].key = SPL_TOKEN_ID)
             => last'.res \in ArgumentError

Thm_C6_SettleForeignUserRecord == [][C6_Step]_vars

Wit_C6_SettleForeignUserRecord ==
    /\ last.op = "Settle"
    /\ Len(last.accounts) >= 10
    /\ last.accounts[8].is_signer
    /\ user[last.accounts[7].key].owner # last.accounts[8].key
    /\ user[last.accounts[7].key].quote_token_free > 0
    /\ last.res = "InvalidArgument"
    /\ Transfers(last.trace) = <<>>

(***************************************************************************)
(* C7: in every Settle and SweepFees call a transfer out of a vault is     *)
(* issued only if the supplied market-signer account is the address        *)
(* re-derived from (market address, stored bump, program identity); when   *)
(* they differ the call fails with ArgumentError and issues no transfer.   *)
(***************************************************************************)
\* The checks that run before the authority is compared.
ReachesAuthorityCheck(call, u) ==
    IF call.op = "SweepFees"
    THEN /\ Len(call.accounts) >= 6
         /\ call.accounts[3].is_signer
         /\ call.accounts[6].key = SPL_TOKEN_ID
         /\ AccountOwner(call.accounts[1].key) = PROGRAM_ID
    ELSE /\ call.op = "Settle"
         /\ Len(call.accounts) >= 10
         /\ call.accounts[8].is_signer
         /\ call.accounts[2].key = SPL_TOKEN_ID
         /\ u[call.accounts[7].key].owner = call.accounts[8].key
         /\ u[call.accounts[7].key].market = call.accounts[3].key

CallMarket(call) ==
    IF call.op = "SweepFees" THEN call.accounts[1].key ELSE call.accounts[3].key

CallMarketSigner(call) ==
    IF call.op = "SweepFees" THEN call.accounts[2].key ELSE call.accounts[6].key

Cex_C7_AuthorityMismatchArgumentError ==
    /\ Transfers(last.trace) # <<>>
         => CallMarketSigner(last) = DerivedAuthority(market, CallMarket(last))
    /\ (/\ ReachesAuthorityCheck(last, user)
        /\ CallMarketSigner(last) # DerivedAuthority(market, CallMarket(last)))
         => (last.res \in ArgumentError /\ Transfers(last.trace) = <<>>)

(***************************************************************************)
(* C8: SweepFees moves funds only for the market's admin and only from the *)
(* market's own quote vault: a call whose admin slot has not signed fails  *)
(* with SignerError; a call whose admin key differs from the stored admin, *)
(* or whose quote-vault key differs from the stored quote vault, fails,    *)
(* and with ArgumentError when the checks before check_accounts pass; in   *)
(* all these cases no transfer is issued and the market records and token  *)
(* balances are unchanged.                                                 *)
(***************************************************************************)
C8_Step ==
    (last'.op = "SweepFees" /\ Len(last'.accounts) >= 6)
    => LET acc == last'.accounts
           mk == acc[1].key
           unsigned == ~acc[3].is_signer
           wrongAdmin == acc[3].key # market[mk].admin
           wrongVault == acc[4].key # market[mk].quote_vault
       IN  /\ unsigned => last'.res \in SignerError
           /\ (unsigned \/ wrongAdmin \/ wrongVault)
                => /\ last'.res # "Ok"
                   /\ Transfers(last'.trace) = <<>>
                   /\ market' = market
                   /\ token' = token
           /\ (/\ wrongAdmin \/ wrongVault
               /\ ~unsigned
               /\ acc[6].key = SPL_TOKEN_ID
               /\ AccountOwner(mk) = PROGRAM_ID)
                => last'.res \in ArgumentError

Thm_C8_SweepAdminAndVault == [][C8_Step]_vars

Wit_C8_SweepAdminAndVault ==
    /\ last.op = "SweepFees"
    /\ Len(last.accounts) >= 6
    /\ last.accounts[3].is_signer
    /\ last.accounts[3].key # market[last.accounts[1].key].admin
    /\ last.accounts[4].key = market[last.accounts[1].key].quote_vault
    /\ market[last.accounts[1].key].accumulated_fees > 0
    /\ last.res = "InvalidMarketAdminAccount"
    /\ Transfers(last.trace) = <<>>

(***************************************************************************)
(* C9: in every handler every check is completed before the first write to *)
(* an account's stored data and before the first transfer: on an execution *)
(* in which a check fails, no account data has been written and no         *)
(* transfer has been invoked.                                              *)
(***************************************************************************)
\* The results with which a call ends when one of its checks fails.
CheckFailure(res) == res \notin {"none", "Ok", "TokenError"}

Cex_C9_ChecksBeforeEffects ==
    CheckFailure(last.res)
    => (Writes(last.trace) = <<>> /\ Transfers(last.trace) = <<>>)

(***************************************************************************)
(* C10: Settle and SweepFees reject with OwnershipError, during            *)
(* account-list validation and before the market record is read, a call    *)
(* whose market account is not owned by this program, and reject a call    *)
(* whose token-program slot is not the token program.                      *)
(***************************************************************************)
CallTokenProgram(call) ==
    IF call.op = "SweepFees" THEN call.accounts[6].key ELSE call.accounts[2].key

\* The list is long enough and the required signer has signed.
ReachesOwnershipCheck(call) ==
    IF call.op = "SweepFees"
    THEN Len(call.accounts) >= 6 /\ call.accounts[3].is_signer
    ELSE call.op = "Settle" /\ Len(call.accounts) >= 10 /\ call.accounts[8].is_signer

Cex_C10_ForeignMarketOwnershipError ==
    ReachesOwnershipCheck(last)
    => /\ AccountOwner(CallMarket(last)) # PROGRAM_ID
            => /\ last.res \in OwnershipError
               /\ \A i \in 1..Len(last.trace) : last.trace[i].kind # "read"
       /\ CallTokenProgram(last) # SPL_TOKEN_ID
            => (last.res # "Ok" /\ last.trace = <<>>)

(***************************************************************************)
(* C11: every way a Settle or SweepFees call can fail on a check ends the  *)
(* call by returning an error code, never by an abort that carries none,   *)
(* and two different failing checks return different codes.                *)
(***************************************************************************)
\* The checks of SweepFees that an account list fails on the records m.
SweepFeesFailing(accounts, m) ==
    IF Len(accounts) < 6 THEN {"account_count"}
    ELSE {c \in {"signer", "token_program", "market_owner", "authority",
                 "quote_vault", "admin", "zero_fees"} :
            CASE c = "signer" -> ~accounts[3].is_signer
              [] c = "token_program" -> accounts[6].key # SPL_TOKEN_ID
              [] c = "market_owner" -> AccountOwner(accounts[1].key) # PROGRAM_ID
              [] c = "authority" -> accounts[2].key # DerivedAuthority(m, accounts[1].key)
              [] c = "quote_vault" -> accounts[4].key # m[accounts[1].key].quote_vault
              [] c = "admin" -> accounts[3].key # m[accounts[1].key].admin
              [] OTHER -> m[accounts[1].key].accumulated_fees = 0}

\* The checks of Settle that an account list fails on the records m and u.
SettleFailing(accounts, m, u) ==
    IF Len(accounts) < 10 THEN {"account_count"}
    ELSE {c \in {"signer", "token_program", "user_owner", "user_market",
                 "authority", "base_vault", "quote_vault", "matching_program"} :
            CASE c = "signer" -> ~accounts[8].is_signer
              [] c = "token_program" -> accounts[2].key # SPL_TOKEN_ID
              [] c = "user_owner" -> u[accounts[7].key].owner # accounts[8].key
              [] c = "user_market" -> u[accounts[7].key].market # accounts[3].key
              [] c = "authority" -> accounts[6].key # DerivedAuthority(m, accounts[3].key)
              [] c = "base_vault" -> accounts[4].key # m[accounts[3].key].base_vault
              [] c = "quote_vault" -> accounts[5].key # m[accounts[3].key].quote_vault
              [] OTHER -> accounts[1].key # m[accounts[3].key].aaob_program}

\* The last call failed on exactly one check, and `other' fails on exactly
\* one other check of the same handler.
FailOnDifferentChecks(call, other, m, u) ==
    IF call.op = "Settle"
    THEN /\ Cardinality(SettleFailing(call.accounts, m, u)) = 1
         /\ Cardinality(SettleFailing(other, m, u)) = 1
         /\ SettleFailing(call.accounts, m, u) # SettleFailing(other, m, u)
    ELSE /\ call.op = "SweepFees"
         /\ Cardinality(SweepFeesFailing(call.accounts, m)) = 1
         /\ Cardinality(SweepFeesFailing(other, m)) = 1
         /\ SweepFeesFailing(call.accounts, m) # SweepFeesFailing(other, m)

Cex_C11_DistinctSurfacedErrorCodes ==
    CheckFailure(last.res)
    => /\ last.res # "Panic"
       /\ last.op = "Settle" =>
            \A other \in SettleCalls :
                FailOnDifferentChecks(last, other, market, user)
                => last.res # settle_process(PROGRAM_ID, other, market, user, token).res
       /\ last.op = "SweepFees" =>
            \A other \in SweepFeesCalls :
                FailOnDifferentChecks(last, other, market, user)
                => last.res # sweep_fees_process(PROGRAM_ID, other, market, user, token).res

(***************************************************************************)
(* Vocabulary of the wire-format claims.                                   *)
(***************************************************************************)
\* The opcode each builder is the builder of.
OwnOpcode(builder) ==
    CASE builder = "create_market" -> "CreateMarket"
      [] builder = "new_order" -> "NewOrder"
      [] builder = "cancel_order" -> "CancelOrder"
      [] builder = "consume_events" -> "ConsumeEvents"
      [] builder = "settle" -> "Settle"
      [] builder = "initialize_account" -> "InitializeAccount"
      [] builder = "sweep_fees" -> "SweepFees"
      [] builder = "close_account" -> "CloseAccount"
      [] builder = "close_market" -> "CloseMarket"

EmptyPayloadBuilders == {"settle", "sweep_fees", "close_account", "close_market"}

\* The number a sequence of bytes spells, least significant byte first.
RECURSIVE from_le_bytes(_)
from_le_bytes(bytes) ==
    IF bytes = <<>> THEN 0
    ELSE Head(bytes) + 256 * from_le_bytes(Tail(bytes))

TagOf(data) == from_le_bytes(SubSeq(data, 1, 8))

PayloadOf(data) == SubSeq(data, 9, Len(data))

AllBuilds ==
    CreateMarketBuilds \cup NewOrderBuilds \cup CancelOrderBuilds
        \cup ConsumeEventsBuilds \cup InitializeAccountBuilds
        \cup SweepFeesBuilds \cup SettleBuilds \cup CloseAccountBuilds
        \cup CloseMarketBuilds

(* C12: the data of a built instruction is the tag of the builder's own opcode as 8 little-endian bytes followed by exactly the parameter record; settle, sweep_fees, close_account and close_market build exactly the 8 tag bytes; and no builder of another opcode builds the same tag. *)
Cex_C12_OwnTagThenParams ==
    built.builder # "none"
    => LET data == built.instruction.data IN
       /\ Len(data) = 8 + Len(built.params)
       /\ TagOf(data) = as_u64(OwnOpcode(built.builder))
       /\ PayloadOf(data) = built.params
       /\ built.builder \in EmptyPayloadBuilders => Len(data) = 8
       /\ \A other \in AllBuilds :
              OwnOpcode(other.builder) # OwnOpcode(built.builder)
              => TagOf(other.instruction.data) # TagOf(data)

\* The key the client gave the builder for a role.
RoleKey(b, role) ==
    IF role = "spl_token_program" THEN SPL_TOKEN_ID ELSE b.args[role]

\* The built list has the table's length and, slot by slot, its role and flags.
MatchesTable(b, table) ==
    /\ Len(b.instruction.accounts) = Len(table)
    /\ \A i \in 1..Len(table) :
           /\ b.instruction.accounts[i].pubkey = RoleKey(b, table[i].role)
           /\ b.instruction.accounts[i].is_writable = table[i].is_writable
           /\ b.instruction.accounts[i].is_signer = table[i].is_signer

\* The handler's parse reads, for every role of the table, the account the
\* builder placed for that role.
SettleParseBinds(b) ==
    /\ next_account_infos(account_infos(b.instruction), 10) = "Ok"
    /\ \A i \in 1..Len(Settle_account_table) :
           LET role == Settle_account_table[i].role IN
           settle_Accounts(account_infos(b.instruction))[role].key = RoleKey(b, role)

SweepFeesParseBinds(b) ==
    /\ next_account_infos(account_infos(b.instruction), 6) = "Ok"
    /\ \A i \in 1..Len(SweepFees_account_table) :
           LET role == SweepFees_account_table[i].role IN
           sweep_fees_Accounts(account_infos(b.instruction))[role].key = RoleKey(b, role)

(* C13: the account list built by settle and by sweep_fees has the length, the slot order and the signer and writable flags of the opcode's documented table, and the handler's parse binds every slot to the role the builder placed there. *)
Cex_C13_BuilderSchemaParseAgree ==
    /\ built.builder = "settle"
       => /\ MatchesTable(built, Settle_account_table)
          /\ SettleParseBinds(built)
    /\ built.builder = "sweep_fees"
       => /\ MatchesTable(built, SweepFees_account_table)
          /\ SweepFeesParseBinds(built)

(***************************************************************************)
(* Vocabulary of the ledger claims.                                        *)
(***************************************************************************)
RECURSIVE SumOf(_)
SumOf(f) ==
    IF DOMAIN f = {} THEN 0
    ELSE LET k == CHOOSE x \in DOMAIN f : TRUE IN
         f[k] + SumOf([x \in DOMAIN f \ {k} |-> f[x]])

\* Successful transfers of a trace that take tokens out of an account.
TransfersOutOf(trace, src) ==
    SelectSeq(trace, LAMBDA s : s.kind = "transfer" /\ s.ok /\ s.src = src)

TransferredOutOf(trace, src) ==
    SumOf([i \in 1..Len(TransfersOutOf(trace, src)) |->
              TransfersOutOf(trace, src)[i].amount])

(* C14: in every Settle or SweepFees call, a user's free quote or base balance, or a market's fee counter, decreases only if the call succeeded and made a successful transfer of exactly that amount out of that market's quote vault (base vault for the base balance); the amount a committed call transfers out of each vault, and the amount that leaves the vault's balance, is the call's decrease of free balances plus swept fees; and a call that does not commit moves no tokens. *)
C14_Step ==
    LET quote_down == [u \in UserKeys |-> user[u].quote_token_free - user'[u].quote_token_free]
        base_down == [u \in UserKeys |-> user[u].base_token_free - user'[u].base_token_free]
        fees_down == [m \in MarketKeys |-> market[m].accumulated_fees - market'[m].accumulated_fees]
        trace == last'.trace
    IN
    /\ \A u \in UserKeys :
           /\ quote_down[u] > 0
              => /\ last'.res = "Ok"
                 /\ \E i \in 1..Len(trace) :
                        /\ trace[i].kind = "transfer" /\ trace[i].ok
                        /\ trace[i].src = market[user[u].market].quote_vault
                        /\ trace[i].amount = quote_down[u]
           /\ base_down[u] > 0
              => /\ last'.res = "Ok"
                 /\ \E i \in 1..Len(trace) :
                        /\ trace[i].kind = "transfer" /\ trace[i].ok
                        /\ trace[i].src = market[user[u].market].base_vault
                        /\ trace[i].amount = base_down[u]
    /\ \A m \in MarketKeys :
           fees_down[m] > 0
           => /\ last'.res = "Ok"
              /\ \E i \in 1..Len(trace) :
                     /\ trace[i].kind = "transfer" /\ trace[i].ok
                     /\ trace[i].src = market[m].quote_vault
                     /\ trace[i].amount = fees_down[m]
    /\ last'.res = "Ok"
       => /\ TransferredOutOf(trace, "QV") = SumOf(quote_down) + SumOf(fees_down)
          /\ TransferredOutOf(trace, "BV") = SumOf(base_down)
    /\ token["QV"] - token'["QV"] = SumOf(quote_down) + SumOf(fees_down)
    /\ token["BV"] - token'["BV"] = SumOf(base_down)

Thm_C14_DecreaseOnlyWithTransfer == [][C14_Step]_vars

Wit_C14_DecreaseOnlyWithTransfer ==
    /\ last.op = "Settle"
    /\ last.res = "Ok"
    /\ TransferredOutOf(last.trace, "QV") > 0
    /\ TransferredOutOf(last.trace, "BV") > 0
    /\ user[last.accounts[7].key].quote_token_free = 0
    /\ user[last.accounts[7].key].base_token_free = 0
    /\ market["M1"].accumulated_fees = 0
    /\ token["QV"] + token["DQ"] > TransferredOutOf(last.trace, "QV") + 1

(* C16: a Settle call, successful or failed, leaves every field of every market record, the locked balances, owner and market of every user record, and every user record other than the one in its user slot as they were; of the token accounts only the market's two vaults and the two destination slots can change. *)
C16_Step ==
    last'.op = "Settle"
    => /\ market' = market
       /\ \A k \in UserKeys :
              /\ user'[k].base_token_locked = user[k].base_token_locked
              /\ user'[k].quote_token_locked = user[k].quote_token_locked
              /\ user'[k].owner = user[k].owner
              /\ user'[k].market = user[k].market
              /\ user'[k] # user[k]
                 => /\ Len(last'.accounts) = 10
                    /\ k = last'.accounts[7].key
       /\ \A k \in TokenKeys :
              token'[k] # token[k]
              => /\ Len(last'.accounts) = 10
                 /\ k \in {market[last'.accounts[3].key].base_vault,
                           market[last'.accounts[3].key].quote_vault,
                           last'.accounts[9].key, last'.accounts[10].key}

Thm_C16_SettleFrame == [][C16_Step]_vars

Wit_C16_SettleFrame ==
    /\ last.op = "Settle"
    /\ last.res = "Ok"
    /\ Len(Writes(last.trace)) = 2
    /\ Writes(last.trace)[1].acct = "M1"
    /\ market["M1"].accumulated_fees > 0
    /\ user["U1"].base_token_locked = 1
    /\ user["U1"].quote_token_locked = 1
    /\ token["DQ"] > 0
    /\ token["DB"] > 0

(***************************************************************************)
(* Vocabulary of the crank claim.                                          *)
(***************************************************************************)
\* What the first n events of a queue credit to a user account.
Credited(q, n, k, field) ==
    SumOf([i \in {j \in 1..n : q[j].user_account = k} |-> q[i][field]])

(* C15: a ConsumeEvents call never fails; the events it processes are the head of the queue in the queue's order, and the queue keeps the rest; an event is applied exactly when the account it references is in the supplied list, otherwise it is skipped and counted; and the user accounts whose balances change are exactly those referenced by a processed event and present in the list, each credited with the amounts of its events. *)
C15_Step ==
    LET n == Len(crank'.outcomes)
        listed == consume_events_user_accounts(crank'.accounts)
    IN
    /\ crank'.res = "Ok"
    /\ n <= Len(queue)
    /\ queue # <<>> => n >= 1
    /\ \A i \in 1..n :
           /\ crank'.outcomes[i].event = queue[i]
           /\ crank'.outcomes[i].outcome =
                  IF queue[i].user_account \in listed THEN "applied" ELSE "skipped"
    /\ queue' = SubSeq(queue, n + 1, Len(queue))
    /\ crank'.skipped = Cardinality({i \in 1..n : queue[i].user_account \notin listed})
    /\ \A k \in UserKeys :
           /\ user'[k] # user[k]
              <=> /\ k \in listed
                  /\ \E i \in 1..n : queue[i].user_account = k
           /\ k \in listed
              => /\ user'[k].base_token_free
                        = user[k].base_token_free + Credited(queue, n, k, "base_delta")
                 /\ user'[k].quote_token_free
                        = user[k].quote_token_free + Credited(queue, n, k, "quote_delta")
                 /\ user'[k].base_token_locked = user[k].base_token_locked
                 /\ user'[k].quote_token_locked = user[k].quote_token_locked

====
